---- MODULE Spec2Model ----
(***************************************************************************)
(* ParallelLoopEmitter (xla/service/gpu/parallel_loop_emitter.cc).         *)
(*                                                                         *)
(* Two phases are modelled.  Emission: EmitLoop runs once, at compile      *)
(* time, and produces an instruction structure (recorded in ir), the       *)
(* exit block exit_bb_ and the builder's insertion point.  Execution: the  *)
(* emitted code is then run by every hardware thread                       *)
(* (blockIdx.x, threadIdx.x), one thread after the other; the threads      *)
(* share no state, so their order does not matter.                         *)
(***************************************************************************)
EXTENDS Integers, Sequences, FiniteSets, TLC

\* ---------------------------------------------------------------- bounds
\* Shapes of Spec and SpecNarrow: rank, dimension size, element count.
MaxRank == 3
MaxDim == 4
MaxElements == 8
\* Shapes of SpecFlat.
MaxFlatRank == 1
MaxFlatDim == 6
\* Launch dimensions.  y and z enter the code only through the products
\* x * y * z, so one of the two is enough to vary them.
MaxBlocksX == 2
MaxThreadsX == 2
MaxY == 2
MaxZ == 1
MaxUnroll == 2
\* The explicit index type of SpecNarrow, in bits.
NarrowWidth == 3

VARIABLES
  shape_,              \* [dimensions, has_layout, minor_to_major]
  launch_dimensions_,  \* [block_counts, thread_counts_per_block], each [x, y, z]
  unroll_factor_,
  index_type,          \* 0 is nullptr, otherwise the integer width in bits
  epc,                 \* position inside EmitLoop
  status,              \* what EmitLoop returned ("none" while it runs)
  exit_bb_,            \* the recorded exit block ("null" before the mapper ran)
  insert_point,        \* the block the IR builder b_ inserts into
  ir,                  \* the emitted structure
  mapper_calls,        \* base_index argument of each mapper call
  body_calls,          \* unroll slot handed to each body_emitter_ call
  body_returns,        \* what each body_emitter_ call returned
  tid,                 \* the hardware thread executing (linear number along x)
  xpc,                 \* "wait", "run" or "finished" for thread tid
  base,                \* the residual loop's induction variable
  bases,               \* the induction values the thread ran a wave for
  wave,                \* the last wave the thread executed
  visited,             \* linear index -> number of body executions, all threads
  later_runs,          \* executions, by thread tid, of the block at insert_point
  overflow             \* some executed nuw/nsw operation wrapped

vars == <<shape_, launch_dimensions_, unroll_factor_, index_type, epc, status,
          exit_bb_, insert_point, ir, mapper_calls, body_calls, body_returns,
          tid, xpc, base, bases, wave, visited, later_runs, overflow>>

config == <<shape_, launch_dimensions_, unroll_factor_>>
emitted == <<epc, status, exit_bb_, insert_point, ir, mapper_calls,
             body_calls, body_returns, index_type>>
running == <<tid, xpc, base, bases, wave, visited, later_runs, overflow>>

\* ------------------------------------------------------ shapes and layout
RECURSIVE Product(_)
Product(s) == IF s = <<>> THEN 1 ELSE Head(s) * Product(Tail(s))

RECURSIVE Volume(_)
Volume(s) ==
  IF s = <<>> THEN 1
  ELSE (IF Head(s) = 0 THEN 1 ELSE Head(s)) * Volume(Tail(s))

Rank(shape) == Len(shape.dimensions)

ElementsIn(shape) == Product(shape.dimensions)

LayoutPermutations(r) ==
  {p \in [1..r -> 0..(r - 1)] : \A i, j \in 1..r : i # j => p[i] # p[j]}

\* Shapes of rank up to max_rank with dimensions up to max_dim.  A dimension
\* of size 0 counts as 1 in the bound on the element count, which keeps the
\* zero-size shapes as few as the others.
ShapesOf(max_rank, max_dim) ==
  UNION {
    {[dimensions |-> d, has_layout |-> TRUE, minor_to_major |-> p] :
        d \in {e \in [1..r -> 0..max_dim] : Volume(e) <= MaxElements},
        p \in LayoutPermutations(r)}
    \cup
    {[dimensions |-> d, has_layout |-> FALSE, minor_to_major |-> <<>>] :
        d \in {e \in [1..r -> 0..max_dim] : Volume(e) <= MaxElements}}
    : r \in 1..max_rank}

Dim3D(xs, ys, zs) == {[x |-> a, y |-> b, z |-> c] : a \in xs, b \in ys, c \in zs}

LaunchDimensions ==
  {[block_counts |-> bc, thread_counts_per_block |-> tc] :
      bc \in Dim3D(1..MaxBlocksX, 1..MaxY, 1..MaxZ),
      tc \in Dim3D(1..MaxThreadsX, 1..MaxY, 1..MaxZ)}

launch_bound(ld) ==
  ld.block_counts.x * ld.thread_counts_per_block.x *
  ld.block_counts.y * ld.thread_counts_per_block.y *
  ld.block_counts.z * ld.thread_counts_per_block.z

\* Position (1-based) of dimension d (0-based) in minor_to_major.
PositionOf(shape, d) ==
  CHOOSE k \in 1..Rank(shape) : shape.minor_to_major[k] = d

RECURSIVE Divisor(_, _)
Divisor(shape, k) ==
  IF k = 1 THEN 1
  ELSE Divisor(shape, k - 1) * shape.dimensions[shape.minor_to_major[k - 1] + 1]

\* The coordinate of `linear` along every dimension, under the shape's layout.
Delinearize(linear, shape) ==
  [d \in 1..Rank(shape) |->
     LET size == shape.dimensions[d]
         div == Divisor(shape, PositionOf(shape, d - 1))
     IN IF size = 0 \/ div = 0 THEN 0 ELSE (linear \div div) % size]

\* ------------------------------------------- nuw/nsw arithmetic at width w
\* A value is [v, poison]: poison once an operation flagged no-unsigned-wrap
\* and no-signed-wrap left the w-bit range.  The model's numbers stay far
\* below 2^31, so nothing wraps at a width of 32 bits or more.
SMax(w) == IF w >= 32 THEN 2147483647 ELSE 2^(w - 1) - 1

Wrap(n, w) == IF w >= 32 THEN n ELSE n % (2^w)

Const(n) == [v |-> n, poison |-> FALSE]

CreateAdd(a, b, w) ==
  [v |-> Wrap(a.v + b.v, w),
   poison |-> a.poison \/ b.poison \/ a.v + b.v > SMax(w)]

CreateMul(a, b, w) ==
  [v |-> Wrap(a.v * b.v, w),
   poison |-> a.poison \/ b.poison \/ a.v * b.v > SMax(w)]

\* ------------------------------------------------------------ the mapper
enable_row_index(shape, ld, unroll) ==
  LET dim3 == ld.thread_counts_per_block
  IN /\ Rank(shape) > 1
     /\ unroll > 1
     /\ shape.has_layout
     /\ shape.minor_to_major[Rank(shape)] = 0
     /\ dim3.x * dim3.y * dim3.z * unroll = shape.dimensions[Rank(shape)]

\* linear_index_base as the emitted code computes it for one thread.
linear_index_base(block_id, thread_id, has_base, base_index, w) ==
  LET tx == launch_dimensions_.thread_counts_per_block.x
      linear_index ==
        CreateAdd(CreateMul(Const(block_id), Const(tx), w), Const(thread_id), w)
      scaled ==
        IF unroll_factor_ > 1
        THEN CreateMul(linear_index, Const(unroll_factor_), w)
        ELSE linear_index
  IN IF has_base THEN CreateAdd(scaled, Const(base_index), w) ELSE scaled

\* linear_index<i>: slot 0 is linear_index_base itself.
linear_index_slot(lib, i, w) ==
  IF i = 0 THEN lib ELSE CreateAdd(lib, Const(i), w)

\* row_index and row_index_plus<i>.
row_index_slot(thread_id, i, w) ==
  LET row_index == CreateMul(Const(thread_id), Const(unroll_factor_), w)
  IN IF i = 0 THEN row_index ELSE CreateAdd(row_index, Const(i), w)

\* IrArray::Index(linear, shape) and IrArray::Index(linear, multidim, shape):
\* the coordinates not supplied are derived from the linear index.
ArrayIndex(linear, row, use_row, shape) ==
  [linear |-> linear,
   row |-> row,
   multidim |->
     IF ~shape.has_layout \/ linear.poison THEN <<>>
     ELSE LET generic == Delinearize(linear.v, shape)
          IN IF use_row THEN [generic EXCEPT ![Rank(shape)] = row.v]
             ELSE generic]

\* array_indices, evaluated for one thread and one base.
array_indices(block_id, thread_id, has_base, base_index, use_row, slots, w) ==
  LET lib == linear_index_base(block_id, thread_id, has_base, base_index, w)
  IN [k \in 1..slots |->
        ArrayIndex(linear_index_slot(lib, k - 1, w),
                   IF use_row THEN row_index_slot(thread_id, k - 1, w)
                   ELSE Const(0),
                   use_row, shape_)]

\* if (linear_index_base < num_elements): branching on poison has no
\* defined outcome.
in_bounds(lib, num_elements) ==
  IF lib.poison THEN BOOLEAN ELSE {lib.v < num_elements}

\* -------------------------------------------------------------- emission
Statuses == {"OK", "INTERNAL", "UNIMPLEMENTED"}

NoIr ==
  [loop |-> FALSE, start |-> 0, end |-> 0, step |-> 0, has_base |-> FALSE,
   row |-> FALSE, guard_parent |-> "none", slots |-> 0]

NoWave ==
  [valid |-> FALSE, block_id |-> 0, thread_id |-> 0, base |-> 0,
   taken |-> FALSE, linear_index_base |-> Const(0), indices |-> <<>>]

\* if (total_threads * unroll_factor_ >= num_elements)
UseFallback_strict(total_threads, num_elements) ==
  total_threads * unroll_factor_ > num_elements

UseFallback(total_threads, num_elements) ==
  total_threads * unroll_factor_ >= num_elements

\* The step handed to ksl.ForWithStatus.
LoopStep_no_unroll(total_threads) == total_threads

LoopStep(total_threads) == total_threads * unroll_factor_

\* TF_RETURN_IF_ERROR(body_emitter_(array_index)) inside the loop's lambda,
\* and TF_RETURN_IF_ERROR(ksl.ForWithStatus(...)) around it.
ReturnIfError_ignored(r, otherwise) == otherwise

ReturnIfError(r, otherwise) ==
  IF r # "OK" THEN [epc |-> "done", status |-> r] ELSE otherwise

\* The same loop over the mapper's indices in LoopEmitter::EmitLoop.
BaseReturnIfError(r, otherwise) ==
  IF r # "OK" THEN [epc |-> "done", status |-> r] ELSE otherwise

\* if (exit_bb_ != nullptr) b_->SetInsertPoint(exit_bb_);
SetInsertPointAtExit_skipped(exit_bb, current) == current

SetInsertPointAtExit(exit_bb, current) ==
  IF exit_bb # "null" THEN exit_bb ELSE current

\* The same in LoopEmitter::EmitLoop.
BaseSetInsertPointAtExit(exit_bb, current) ==
  IF exit_bb # "null" THEN exit_bb ELSE current

\* KernelSupportLibrary::ForWithStatus: a counted loop; the generator emits
\* into the loop's body, and emission resumes at the loop's exit.
ForWithStatusEnter(start, end, step) ==
  [ir EXCEPT !.loop = TRUE, !.start = start, !.end = end, !.step = step]

ForWithStatusLeave == "loop_exit"

\* EmitLoop, up to the first call of the mapper.
EmitLoopEntry ==
  /\ epc = "EmitLoop"
  /\ index_type' = IF index_type = 0 THEN 64 ELSE index_type
  /\ LET total_threads == launch_bound(launch_dimensions_)
         num_elements == ElementsIn(shape_)
     IN IF UseFallback(total_threads, num_elements)
        THEN /\ ir' = ir
             /\ insert_point' = insert_point
        ELSE /\ ir' = ForWithStatusEnter(0, num_elements, LoopStep(total_threads))
             /\ insert_point' = "loop_body"
  /\ epc' = "mapper"
  /\ UNCHANGED <<config, status, exit_bb_, mapper_calls, body_calls, body_returns>>
  /\ UNCHANGED running

EmitIndexAndSetExitBasicBlock ==
  /\ epc = "mapper"
  /\ mapper_calls' = Append(mapper_calls, IF ir.loop THEN "indvar" ELSE "nullptr")
  /\ ir' = [ir EXCEPT
              !.has_base = ir.loop,
              !.row = enable_row_index(shape_, launch_dimensions_, unroll_factor_),
              !.guard_parent = insert_point,
              !.slots = 1 + (IF unroll_factor_ > 1 THEN unroll_factor_ - 1 ELSE 0)]
  /\ exit_bb_' = "in_bounds-after"
  /\ insert_point' = "in_bounds-true"
  /\ epc' = "body"
  /\ UNCHANGED <<config, index_type, status, body_calls, body_returns>>
  /\ UNCHANGED running

\* One call of body_emitter_ on the next index of array_indices.
BodyEmitter ==
  /\ epc = "body"
  /\ \E r \in Statuses :
       LET k == Len(body_calls)
           otherwise ==
             [epc |-> IF k + 1 = ir.slots THEN "exit" ELSE "body",
              status |-> status]
           next ==
             IF ir.loop THEN ReturnIfError(r, otherwise)
             ELSE BaseReturnIfError(r, otherwise)
       IN /\ body_calls' = Append(body_calls, k)
          /\ body_returns' = Append(body_returns, r)
          /\ epc' = next.epc
          /\ status' = next.status
  /\ UNCHANGED <<config, index_type, exit_bb_, insert_point, ir, mapper_calls>>
  /\ UNCHANGED running

\* EmitLoop after the last index: the insertion point moves to exit_bb_.
EmitLoopExit ==
  /\ epc = "exit"
  /\ insert_point' =
       IF ir.loop THEN SetInsertPointAtExit(exit_bb_, ForWithStatusLeave)
       ELSE BaseSetInsertPointAtExit(exit_bb_, insert_point)
  /\ status' = "OK"
  /\ epc' = "done"
  /\ UNCHANGED <<config, index_type, exit_bb_, ir, mapper_calls, body_calls,
                 body_returns>>
  /\ UNCHANGED running

\* ------------------------------------------------------------- execution
Threads ==
  launch_dimensions_.block_counts.x * launch_dimensions_.thread_counts_per_block.x

RECURSIVE Visit(_, _)
Visit(v, idx) ==
  IF idx = <<>> THEN v
  ELSE LET k == Head(idx).linear
           w == IF k.poison THEN v
                ELSE IF k.v \in DOMAIN v THEN [v EXCEPT ![k.v] = @ + 1]
                ELSE v @@ (k.v :> 1)
       IN Visit(w, Tail(idx))

\* The next hardware thread starts running the emitted code.
ScheduleThread ==
  /\ epc = "done"
  /\ status = "OK"
  /\ \/ /\ xpc = "wait"
        /\ tid' = tid
     \/ /\ xpc = "finished"
        /\ tid + 1 < Threads
        /\ tid' = tid + 1
  /\ xpc' = "run"
  /\ base' = ir.start
  /\ bases' = <<>>
  /\ wave' = NoWave
  /\ later_runs' = 0
  /\ UNCHANGED <<config, visited, overflow>>
  /\ UNCHANGED emitted

\* One wave: the mapper's arithmetic, the in_bounds guard, the body on every
\* index inside it, then the guard's after block (the rest of the block the
\* guard was emitted into) and, in a loop, the increment.
ExecWave ==
  /\ xpc = "run"
  /\ IF ir.loop THEN base < ir.end ELSE bases = <<>>
  /\ LET tx == launch_dimensions_.thread_counts_per_block.x
         block_id == tid \div tx
         thread_id == tid % tx
         lib == linear_index_base(block_id, thread_id, ir.has_base, base, index_type)
         idx == array_indices(block_id, thread_id, ir.has_base, base, ir.row,
                              ir.slots, index_type)
     IN \E taken \in in_bounds(lib, ElementsIn(shape_)) :
          /\ wave' = [valid |-> TRUE, block_id |-> block_id,
                      thread_id |-> thread_id, base |-> base, taken |-> taken,
                      linear_index_base |-> lib, indices |-> idx]
          /\ visited' = IF taken THEN Visit(visited, idx) ELSE visited
          /\ overflow' = (overflow \/ \E k \in 1..Len(idx) :
                                        idx[k].linear.poison \/ idx[k].row.poison)
          /\ later_runs' =
               later_runs +
               (IF insert_point \in
                     {ir.guard_parent, "in_bounds-after"} \cup
                     (IF taken THEN {"in_bounds-true"} ELSE {})
                THEN 1 ELSE 0)
  /\ bases' = Append(bases, base)
  /\ base' = IF ir.loop THEN base + ir.step ELSE base
  /\ xpc' = IF ir.loop THEN "run" ELSE "finished"
  /\ UNCHANGED <<config, tid>>
  /\ UNCHANGED emitted

\* The loop's exit: the induction variable reached the bound.
ExecLoopExit ==
  /\ xpc = "run"
  /\ ir.loop
  /\ base >= ir.end
  /\ xpc' = "finished"
  /\ later_runs' = later_runs + (IF insert_point = "loop_exit" THEN 1 ELSE 0)
  /\ UNCHANGED <<config, tid, base, bases, wave, visited, overflow>>
  /\ UNCHANGED emitted

\* -------------------------------------------------------- specifications
InitEmitter(shapes) ==
  /\ shape_ \in shapes
  /\ launch_dimensions_ \in LaunchDimensions
  /\ unroll_factor_ \in 1..MaxUnroll
  /\ epc = "EmitLoop"
  /\ status = "none"
  /\ exit_bb_ = "null"
  /\ insert_point = "entry"
  /\ ir = NoIr
  /\ mapper_calls = <<>>
  /\ body_calls = <<>>
  /\ body_returns = <<>>
  /\ tid = 0
  /\ xpc = "wait"
  /\ base = 0
  /\ bases = <<>>
  /\ wave = NoWave
  /\ visited = <<>>
  /\ later_runs = 0
  /\ overflow = FALSE

\* EmitLoop(loop_name) with the index type left to its default.
Init ==
  /\ index_type = 0
  /\ InitEmitter(ShapesOf(MaxRank, MaxDim))

\* The same on the flat shapes of SpecFlat.
InitFlat ==
  /\ index_type = 0
  /\ InitEmitter(ShapesOf(MaxFlatRank, MaxFlatDim))

\* EmitLoop(loop_name, index_type) with a narrow index type that represents
\* the element count and the launch constants.
InitNarrow ==
  /\ index_type = NarrowWidth
  /\ InitEmitter(ShapesOf(MaxRank, MaxDim))
  /\ ElementsIn(shape_) <= SMax(index_type)
  /\ launch_dimensions_.block_counts.x <= SMax(index_type)
  /\ launch_dimensions_.thread_counts_per_block.x <= SMax(index_type)
  /\ unroll_factor_ <= SMax(index_type)

Next ==
  \/ EmitLoopEntry
  \/ EmitIndexAndSetExitBasicBlock
  \/ BodyEmitter
  \/ EmitLoopExit
  \/ ScheduleThread
  \/ ExecWave
  \/ ExecLoopExit

Spec == Init /\ [][Next]_vars

SpecFlat == InitFlat /\ [][Next]_vars

SpecNarrow == InitNarrow /\ [][Next]_vars

\* ---------------------------------------------------------------- claims
num_elements == ElementsIn(shape_)

total_threads == launch_bound(launch_dimensions_)

Ceil(n, s) == (n + s - 1) \div s

\* EmitLoop returned OK and the last hardware thread finished.
AllThreadsDone ==
  /\ status = "OK"
  /\ xpc = "finished"
  /\ tid = Threads - 1

\* C1. Coverage: once every hardware thread has run the emitted code, the
\* body has run exactly once on each linear index 0 .. N-1 and on no other.
Coverage ==
  AllThreadsDone =>
    /\ DOMAIN visited = 0..(num_elements - 1)
    /\ \A k \in DOMAIN visited : visited[k] = 1

\* C2. Bounds safety: every linear index the body runs on inside the
\* in_bounds guard is below the element count N; with N = 0 the guard is
\* never taken, the body runs on nothing, and EmitLoop returns OK when the
\* body emitter does.
BoundsSafety ==
  /\ wave.valid /\ wave.taken =>
       \A k \in 1..Len(wave.indices) : wave.indices[k].linear.v < num_elements
  /\ \A k \in DOMAIN visited : k < num_elements
  /\ num_elements = 0 =>
       /\ wave.valid => ~wave.taken
       /\ visited = <<>>
       /\ (epc = "done" /\ \A k \in 1..Len(body_returns) : body_returns[k] = "OK")
            => status = "OK"

\* C3. Row-index equivalence: when the fast path is on, every index the
\* body runs on (inside the guard, below N) carries the coordinates the
\* generic decomposition gives for its linear index; the pre-filled last
\* coordinate is thread_id * U + i.
RowIndexEquivalence ==
  (wave.valid /\ wave.taken /\ ir.row) =>
    \A k \in 1..Len(wave.indices) :
      LET index == wave.indices[k]
      IN index.linear.v < num_elements =>
           /\ index.row.v = wave.thread_id * unroll_factor_ + (k - 1)
           /\ index.multidim = Delinearize(index.linear.v, shape_)

\* The four conditions of the fast path as the specification words them.
LastDimensionIsMinorMost(shape) ==
  shape.has_layout /\ shape.minor_to_major[1] = Rank(shape) - 1

\* C4. Fast-path enablement: the mapper turns the row index on exactly when
\* rank > 1, U > 1, the layout's fastest-varying dimension is the last
\* dimension, and thread_counts_per_block x * y * z * U is its size.
FastPathEnablement ==
  epc \in {"body", "exit", "done"} =>
    (ir.row <=>
       /\ Rank(shape_) > 1
       /\ unroll_factor_ > 1
       /\ LastDimensionIsMinorMost(shape_)
       /\ launch_dimensions_.thread_counts_per_block.x *
          launch_dimensions_.thread_counts_per_block.y *
          launch_dimensions_.thread_counts_per_block.z * unroll_factor_
            = shape_.dimensions[Rank(shape_)])

\* C5. Direct-path threshold: with launch_bound * U >= N no loop is emitted,
\* the mapper is called once, without a base, its indices go to the body
\* emitter once each and in order, and every thread runs one wave.
DirectPathThreshold ==
  (epc # "EmitLoop" /\ total_threads * unroll_factor_ >= num_elements) =>
    /\ ~ir.loop
    /\ epc # "mapper" => mapper_calls = <<"nullptr">>
    /\ body_calls = [k \in 1..Len(body_calls) |-> k - 1]
    /\ Len(body_calls) <= unroll_factor_
    /\ status = "OK" => Len(body_calls) = unroll_factor_
    /\ xpc = "finished" => Len(bases) = 1 /\ ~ir.has_base

\* The threshold case launch_bound * U = N, run to the end by every thread.
DirectPathWitness ==
  /\ total_threads * unroll_factor_ = num_elements
  /\ unroll_factor_ > 1
  /\ AllThreadsDone
  /\ body_calls = <<0, 1>>
  /\ wave.taken

\* C6. Residual-path iteration: with S = launch_bound * U < N the loop runs
\* ceil(N / S) iterations, on the bases 0, S, 2S, ... below N, and every
\* iteration's wave adds its base to the thread's index.
ResidualIterations ==
  (epc # "EmitLoop" /\ total_threads * unroll_factor_ < num_elements) =>
    LET S == total_threads * unroll_factor_
    IN /\ ir.loop
       /\ epc # "mapper" => mapper_calls = <<"indvar">>
       /\ bases = [k \in 1..Len(bases) |-> (k - 1) * S]
       /\ \A k \in 1..Len(bases) : bases[k] < num_elements
       /\ Len(bases) <= Ceil(num_elements, S)
       /\ xpc = "finished" => Len(bases) = Ceil(num_elements, S)
       /\ (xpc = "run" /\ Len(bases) = Ceil(num_elements, S)) => base >= ir.end
       /\ wave.valid =>
            /\ wave.base = bases[Len(bases)]
            /\ wave.linear_index_base.v =
                 (wave.block_id * launch_dimensions_.thread_counts_per_block.x
                    + wave.thread_id) * unroll_factor_ + wave.base

\* A residual loop of three or more waves whose last wave is partial.
ResidualWitness ==
  /\ AllThreadsDone
  /\ ir.loop
  /\ unroll_factor_ > 1
  /\ Len(bases) >= 3
  /\ num_elements % (total_threads * unroll_factor_) # 0

\* C7. Failure propagation: a failure of the body emitter is the last call
\* of the body emitter, and it is what EmitLoop returns.
FailurePropagation ==
  \A k \in 1..Len(body_returns) :
    body_returns[k] # "OK" =>
      /\ k = Len(body_returns)
      /\ epc = "done"
      /\ status = body_returns[k]

\* The body emitter fails on the first of two indices inside the loop.
FailureWitness ==
  /\ ir.loop
  /\ ir.slots = 2
  /\ body_returns = <<"INTERNAL">>
  /\ status = "INTERNAL"

LaterCodeRunsOnce ==
  (xpc = "finished" /\ ir.loop) =>
    /\ insert_point = "loop_exit"
    /\ later_runs = 1

\* C10. No-wrap arithmetic: no operation flagged nuw/nsw leaves the range of
\* the index type.
NoWrapArithmetic == ~overflow

====
